---- MODULE Spec2Model ----
(***************************************************************************)
(* DVI output through the HSTX command expander: the scanline state        *)
(* machine of dma_irq_handler, the two chained DMA channels that feed the  *)
(* HSTX FIFO, and the start-up code of core1_main                          *)
(* (src/dvi_out_hstx_encoder.c).                                           *)
(*                                                                         *)
(* The pixel format is a build-time switch (#define RBG332); both builds   *)
(* are modelled, the build being chosen in Init.                           *)
(*                                                                         *)
(* The DMA engine is the environment of the program.  It is modelled under *)
(* the real-time assumption the design rests on: the handler serves a      *)
(* completion interrupt before the opposite channel completes.             *)
(***************************************************************************)
EXTENDS Integers, Sequences, FiniteSets, TLC

\* ------------------------------------------------------------------------
\* Video mode (program constants)

MODE_H_FRONT_PORCH == 16
MODE_H_SYNC_WIDTH == 96
MODE_H_BACK_PORCH == 48
MODE_H_ACTIVE_PIXELS == 640

MODE_V_FRONT_PORCH == 10
MODE_V_SYNC_WIDTH == 2
MODE_V_BACK_PORCH == 33
MODE_V_ACTIVE_LINES == 480

MODE_H_TOTAL_PIXELS ==
    MODE_H_FRONT_PORCH + MODE_H_SYNC_WIDTH + MODE_H_BACK_PORCH + MODE_H_ACTIVE_PIXELS

MODE_V_TOTAL_LINES ==
    MODE_V_FRONT_PORCH + MODE_V_SYNC_WIDTH + MODE_V_BACK_PORCH + MODE_V_ACTIVE_LINES

\* sizeof(uint32_t): the DMA transfers 32-bit words
WordBytes == 4

\* ------------------------------------------------------------------------
\* 32-bit unsigned arithmetic of the C source

RECURSIVE Pow2(_)
Pow2(k) == IF k = 0 THEN 1 ELSE 2 * Pow2(k - 1)

\* x << k on uint32_t: the bits shifted past bit 31 are lost
Shl(x, k) == (x % Pow2(32 - k)) * Pow2(k)

Shr(x, k) == x \div Pow2(k)

RECURSIVE BitOr(_, _)
BitOr(x, y) ==
    IF x = 0 THEN y
    ELSE IF y = 0 THEN x
    ELSE (IF x % 2 = 1 \/ y % 2 = 1 THEN 1 ELSE 0) + 2 * BitOr(x \div 2, y \div 2)

RECURSIVE BitAnd(_, _)
BitAnd(x, y) ==
    IF x = 0 \/ y = 0 THEN 0
    ELSE (IF x % 2 = 1 /\ y % 2 = 1 THEN 1 ELSE 0) + 2 * BitAnd(x \div 2, y \div 2)

\* ------------------------------------------------------------------------
\* DVI constants: the four TMDS control symbols (0x354, 0x0ab, 0x154, 0x2ab)
\* and the sync words, one symbol per lane

TMDS_CTRL_00 == 852
TMDS_CTRL_01 == 171
TMDS_CTRL_10 == 340
TMDS_CTRL_11 == 683

SyncWord(lane0) == BitOr(lane0, BitOr(Shl(TMDS_CTRL_00, 10), Shl(TMDS_CTRL_00, 20)))

SYNC_V0_H0 == SyncWord(TMDS_CTRL_00)
SYNC_V0_H1 == SyncWord(TMDS_CTRL_01)
SyncV1H0WithHsyncHigh == SyncWord(TMDS_CTRL_11)
SYNC_V1_H0 == SyncWord(TMDS_CTRL_10)
SYNC_V1_H1 == SyncWord(TMDS_CTRL_11)

\* HSTX commands: the opcode is in bits 15:12, the count in bits 11:0
HSTX_CMD_RAW == Shl(0, 12)
HSTX_CMD_RAW_REPEAT == Shl(1, 12)
HSTX_CMD_TMDS == Shl(2, 12)
HSTX_CMD_TMDS_REPEAT == Shl(3, 12)
HSTX_CMD_NOP == Shl(15, 12)

\* ------------------------------------------------------------------------
\* HSTX command lists (the initialisers of the three static arrays)

vblank_line_vsync_off ==
    << BitOr(HSTX_CMD_RAW_REPEAT, MODE_H_FRONT_PORCH),
       SYNC_V1_H1,
       BitOr(HSTX_CMD_RAW_REPEAT, MODE_H_SYNC_WIDTH),
       SYNC_V1_H0,
       BitOr(HSTX_CMD_RAW_REPEAT, MODE_H_BACK_PORCH + MODE_H_ACTIVE_PIXELS),
       SYNC_V1_H1,
       HSTX_CMD_NOP >>

VblankLineVsyncOnNoActive ==
    << BitOr(HSTX_CMD_RAW_REPEAT, MODE_H_FRONT_PORCH),
       SYNC_V0_H1,
       BitOr(HSTX_CMD_RAW_REPEAT, MODE_H_SYNC_WIDTH),
       SYNC_V0_H0,
       BitOr(HSTX_CMD_RAW_REPEAT, MODE_H_BACK_PORCH),
       SYNC_V0_H1,
       HSTX_CMD_NOP >>

vblank_line_vsync_on ==
    << BitOr(HSTX_CMD_RAW_REPEAT, MODE_H_FRONT_PORCH),
       SYNC_V0_H1,
       BitOr(HSTX_CMD_RAW_REPEAT, MODE_H_SYNC_WIDTH),
       SYNC_V0_H0,
       BitOr(HSTX_CMD_RAW_REPEAT, MODE_H_BACK_PORCH + MODE_H_ACTIVE_PIXELS),
       SYNC_V0_H1,
       HSTX_CMD_NOP >>

vactive_line ==
    << BitOr(HSTX_CMD_RAW_REPEAT, MODE_H_FRONT_PORCH),
       SYNC_V1_H1,
       HSTX_CMD_NOP,
       BitOr(HSTX_CMD_RAW_REPEAT, MODE_H_SYNC_WIDTH),
       SYNC_V1_H0,
       HSTX_CMD_NOP,
       BitOr(HSTX_CMD_RAW_REPEAT, MODE_H_BACK_PORCH),
       SYNC_V1_H1,
       BitOr(HSTX_CMD_TMDS, MODE_H_ACTIVE_PIXELS) >>

\* count_of() of the three command lists
CountOfVblankLineVsyncOff == Len(vblank_line_vsync_off)
CountOfVblankLineVsyncOn == Len(vblank_line_vsync_on)
CountOfVactiveLine == Len(vactive_line)

\* sizeof(tempbuf)
TempbufBytes == 640

DMACH_PING == 0
DMACH_PONG == 1
Channels == {DMACH_PING, DMACH_PONG}

\* The two builds: RBG332 defined (640x480, one byte per pixel) or not
\* (640x240 asset, two bytes per pixel).
Formats == {"RGB332", "RGB565"}

\* static uint v_scanline = 2;
InitialScanline == 2

\* ------------------------------------------------------------------------
\* Bound of the model: the history variables follow the first MaxInvocations
\* invocations of the handler (later invocations still run).

MaxInvocations == 2020

\* The history keeps the records of the most recent invocations.
RecentLen == 3

\* passes of the main loop of core 0 that are followed; a pass may fall
\* anywhere between the steps of core 1 and of the DMA
MaxTeller == 1

\* ------------------------------------------------------------------------
\* State

VARIABLES
    fmt,                     \* the build: "RGB332" or "RGB565"
    pc,                      \* core1_main: "setup" before dma_channel_start, then "wfi"
    dma_pong,                \* static bool dma_pong
    v_scanline,              \* static uint v_scanline
    vactive_cmdlist_posted,  \* static bool vactive_cmdlist_posted
    ch,                      \* dma_hw->ch[n]: read_addr, transfer_count, chain_to
    tempbuf,                 \* byte offset in framebuf of the row held by tempbuf, -1: none yet
    busy,                    \* the channel that is transferring, -1: none
    intr,                    \* dma_hw->intr: channels whose completion interrupt is pending
    cmdlists,                \* the contents of the three static command list arrays
    hstx,                    \* hstx_ctrl_hw: the expand_tmds and expand_shift registers
    idle,                    \* core 1 thread context: "asleep" inside __wfi(), "awake" after it returned
    teller,                  \* the local counter of main() on core 0
    colour,                  \* the latest call of a colour packing function (<<>>: none)
    \* history
    n,                       \* number of handler invocations so far
    recent,                  \* records of the last RecentLen invocations, latest last
    emitted,                 \* per scanline index: what the current vertical period posted for it
    sinceWrap,               \* the current vertical period began at a wrap of v_scanline to 0
    firstLen,                \* the invocation that completed the first 525 scanlines, 0: not yet
    sinceZero,               \* invocations since v_scanline last returned to 0 (or since the start)
    tag,                     \* per channel: the scanline index its transfer stands for, who programmed it
    sink,                    \* the stream delivered to the HSTX FIFO: position of the next transfer
    sunk                     \* the latest transfer delivered (<<>>: none yet)

progVars == <<fmt, pc, dma_pong, v_scanline, vactive_cmdlist_posted, ch, tempbuf,
              busy, intr, cmdlists, hstx>>

histVars == <<n, recent, emitted, sinceWrap, firstLen, sinceZero>>

sinkVars == <<sink, sunk>>

loopVars == <<idle, teller>>

\* the feeder state that C code writes after the feeder was started
sharedVars == <<v_scanline, vactive_cmdlist_posted, dma_pong>>

vars == <<progVars, loopVars, histVars, tag, sinkVars, colour>>

\* An address is the object pointed into and a byte offset in it.
Addr(obj, off) == [obj |-> obj, off |-> off]

NoChannel == [read_addr |-> Addr("null", 0), transfer_count |-> 0, chain_to |-> -1]

\* ------------------------------------------------------------------------
\* dma_irq_handler, piece by piece

\* Mutant: the parity read the wrong way round.
ChNumSwapped(pong) == IF pong THEN DMACH_PING ELSE DMACH_PONG

\* uint ch_num = dma_pong ? DMACH_PONG : DMACH_PING;
ChNum(pong) == IF pong THEN DMACH_PONG ELSE DMACH_PING

\* Mutant: the parity flag is not toggled.
PongAfterStuck(pong) == pong

\* dma_pong = !dma_pong;
PongAfter(pong) == ~pong

\* Mutant: the vsync window closed one line late (<= for <).
InVsyncInclusive(v) ==
    v >= MODE_V_FRONT_PORCH /\ v <= MODE_V_FRONT_PORCH + MODE_V_SYNC_WIDTH

\* The branch taken by the if / else-if chain of the handler.
InVsync(v) ==
    v >= MODE_V_FRONT_PORCH /\ v < MODE_V_FRONT_PORCH + MODE_V_SYNC_WIDTH

\* Mutant: the blanking region ends one line early.
InVblankOneShort(v) ==
    v < MODE_V_FRONT_PORCH + MODE_V_SYNC_WIDTH + MODE_V_BACK_PORCH - 1

InVblank(v) ==
    v < MODE_V_FRONT_PORCH + MODE_V_SYNC_WIDTH + MODE_V_BACK_PORCH

\* Mutant: an active line is posted as its pixel row alone, without header.
BranchPixelsOnly(v, posted) ==
    IF InVsync(v) THEN "vsync_on"
    ELSE IF InVblank(v) THEN "vsync_off"
    ELSE "pixels"

Branch(v, posted) ==
    IF InVsync(v) THEN "vsync_on"
    ELSE IF InVblank(v) THEN "vsync_off"
    ELSE IF ~posted THEN "header"
    ELSE "pixels"

\* Mutant: the first active line is not subtracted.
FramebufIndex332NoOffset(v) == v * MODE_H_ACTIVE_PIXELS

\* Index into framebuf of the first byte of the row posted for scanline v.
FramebufIndex332(v) ==
    (v - (MODE_V_TOTAL_LINES - MODE_V_ACTIVE_LINES)) * MODE_H_ACTIVE_PIXELS

FramebufIndex565(v) ==
    IF v > 523 - 480 + 240
    THEN (v - 239 - (MODE_V_TOTAL_LINES - MODE_V_ACTIVE_LINES)) * MODE_H_ACTIVE_PIXELS * 2
    ELSE (v - (MODE_V_TOTAL_LINES - MODE_V_ACTIVE_LINES)) * MODE_H_ACTIVE_PIXELS * 2

\* ch->read_addr written by the branch
ReadAddr(f, br, v) ==
    CASE br = "vsync_on"  -> Addr("vblank_line_vsync_on", 0)
      [] br = "vsync_off" -> Addr("vblank_line_vsync_off", 0)
      [] br = "header"    -> Addr("vactive_line", 0)
      [] br = "pixels"    -> IF f = "RGB332"
                             THEN Addr("tempbuf", 0)
                             ELSE Addr("framebuf", FramebufIndex565(v))

\* ch->transfer_count written by the branch
TransferCount(f, br) ==
    CASE br = "vsync_on"  -> CountOfVblankLineVsyncOn
      [] br = "vsync_off" -> CountOfVblankLineVsyncOff
      [] br = "header"    -> CountOfVactiveLine
      [] br = "pixels"    -> IF f = "RGB332"
                             THEN MODE_H_ACTIVE_PIXELS \div WordBytes
                             ELSE (MODE_H_ACTIVE_PIXELS * 2) \div WordBytes

\* Mutant: the header branch does not set the flag.
PostedAfterHeaderNotSet(br, posted) ==
    CASE br = "pixels" -> FALSE
      [] OTHER         -> posted

\* vactive_cmdlist_posted after the branch
PostedAfter(br, posted) ==
    CASE br = "header" -> TRUE
      [] br = "pixels" -> FALSE
      [] OTHER         -> posted

\* Mutants: no wraparound; wraparound one line early.
AdvanceNoWrap(v) == v + 1

AdvanceShortModulus(v) == (v + 1) % (MODE_V_TOTAL_LINES - 1)

\* if (!vactive_cmdlist_posted) v_scanline = (v_scanline + 1) % MODE_V_TOTAL_LINES;
Advance(v) == (v + 1) % MODE_V_TOTAL_LINES

\* Mutant: the index advances on every invocation.
ScanlineAfterAlways(v, postedAfter) == (v + 1) % MODE_V_TOTAL_LINES

ScanlineAfter(v, postedAfter) ==
    IF ~postedAfter THEN Advance(v) ELSE v

\* tempbuf after the branch: the RBG332 build copies the row in the pixel phase
TempbufAfter(f, br, v, buf) ==
    IF f = "RGB332" /\ br = "pixels" THEN FramebufIndex332(v) ELSE buf

\* ------------------------------------------------------------------------
\* History of the invocations.

\* The record invocation j ended a vertical period: v_scanline wrapped to 0.
IsWrap(e) == e.next = 0 /\ e.line # 0

LastRecorded == recent[Len(recent)]

LinesDone == IF Len(recent) = 0 THEN 0 ELSE LastRecorded.lines

Keep(s) == IF Len(s) > RecentLen THEN Tail(s) ELSE s

\* What a vertical period has posted for one scanline index, updated by the
\* branch taken: "" nothing, "V" the vsync list, "B" the blanking list,
\* "H" the header, "HP" the header then the pixel row, "X" anything else.
EmitStep(cur, br) ==
    CASE cur = ""  /\ br = "vsync_on"  -> "V"
      [] cur = ""  /\ br = "vsync_off" -> "B"
      [] cur = ""  /\ br = "header"    -> "H"
      [] cur = "H" /\ br = "pixels"    -> "HP"
      [] OTHER                         -> "X"

NothingEmitted == [i \in 1 .. MODE_V_TOTAL_LINES |-> ""]

RecordInvocation(e) ==
    IF n < MaxInvocations
    THEN LET fresh == Len(recent) > 0 /\ IsWrap(LastRecorded)
             base  == IF fresh THEN NothingEmitted ELSE emitted
         IN  /\ n' = n + 1
             /\ recent' = Keep(Append(recent, e))
             /\ emitted' = IF e.line + 1 \in DOMAIN base
                           THEN [base EXCEPT ![e.line + 1] = EmitStep(@, e.kind)]
                           ELSE base
             /\ sinceWrap' = (sinceWrap \/ fresh)
             /\ firstLen' = IF firstLen = 0 /\ e.lines = MODE_V_TOTAL_LINES
                            THEN e.n ELSE firstLen
             /\ sinceZero' = IF IsWrap(e) THEN 0 ELSE sinceZero + 1
    ELSE UNCHANGED histVars

dma_irq_handler ==
    /\ pc = "wfi"
    /\ intr # {}
    /\ LET ch_num == ChNum(dma_pong)
           br     == Branch(v_scanline, vactive_cmdlist_posted)
           pa     == PostedAfter(br, vactive_cmdlist_posted)
       IN  /\ intr' = intr \ {ch_num}
           /\ dma_pong' = PongAfter(dma_pong)
           /\ ch' = [ch EXCEPT ![ch_num].read_addr = ReadAddr(fmt, br, v_scanline),
                               ![ch_num].transfer_count = TransferCount(fmt, br)]
           /\ tempbuf' = TempbufAfter(fmt, br, v_scanline, tempbuf)
           /\ vactive_cmdlist_posted' = pa
           /\ v_scanline' = ScanlineAfter(v_scanline, pa)
           /\ tag' = [tag EXCEPT ![ch_num] =
                                [line |-> v_scanline, by |-> "dma_irq_handler"]]
           /\ RecordInvocation(
                [n      |-> n + 1,            \* the invocation's number
                 pong   |-> dma_pong,         \* dma_pong on entry
                 ch     |-> ch_num,           \* channel acknowledged and reprogrammed
                 busy   |-> busy,             \* channel transferring meanwhile
                 irq    |-> intr,             \* completion interrupts pending on entry
                 line   |-> v_scanline,       \* v_scanline on entry
                 kind   |-> br,               \* branch taken: what was posted
                 addr   |-> ch'[ch_num].read_addr,
                 count  |-> ch'[ch_num].transfer_count,
                 buf    |-> tempbuf',         \* row held by tempbuf on exit
                 posted |-> vactive_cmdlist_posted',
                 next   |-> v_scanline',
                 \* scanlines completed so far (invocations that changed v_scanline)
                 lines  |-> IF v_scanline' # v_scanline
                            THEN LinesDone + 1 ELSE LinesDone])
    /\ idle' = "awake"
    /\ UNCHANGED <<fmt, pc, busy, cmdlists, hstx, teller, sinkVars, colour>>

\* ------------------------------------------------------------------------
\* core1_main: both channels are configured with the blanking list and
\* chained to each other, the interrupts are enabled, PING is started.

\* Mutant: each channel names itself in CHAIN_TO, which disables chaining.
ChainToSelf(c) == c

ChainTo(c) == IF c = DMACH_PING THEN DMACH_PONG ELSE DMACH_PING

\* Mutant: the channels are pre-loaded with the vsync list.
PreloadVsyncOn(c) ==
    [read_addr      |-> Addr("vblank_line_vsync_on", 0),
     transfer_count |-> CountOfVblankLineVsyncOn,
     chain_to       |-> ChainTo(c)]

\* dma_channel_configure(c, ..., vblank_line_vsync_off, count_of(...), false)
Preload(c) ==
    [read_addr      |-> Addr("vblank_line_vsync_off", 0),
     transfer_count |-> CountOfVblankLineVsyncOff,
     chain_to       |-> ChainTo(c)]

\* "A ping and a pong are cued up initially ... This is the third scanline
\* overall": the pre-loaded PING stands for scanline 0, PONG for scanline 1.
PreloadTag(c) ==
    [line |-> IF c = DMACH_PING THEN 0 ELSE 1, by |-> "core1_main"]

\* The TMDS encoder configuration core1_main writes for pixel format f:
\* per lane the NBITS and ROT fields of expand_tmds.
ExpandTmds(f) ==
    IF f = "RGB332"
    THEN [l2_nbits |-> 2, l2_rot |-> 0, l1_nbits |-> 2, l1_rot |-> 29,
          l0_nbits |-> 1, l0_rot |-> 26]
    ELSE [l2_nbits |-> 5, l2_rot |-> 0, l1_nbits |-> 6, l1_rot |-> 29,
          l0_nbits |-> 5, l0_rot |-> 26]

\* expand_shift, the same for both formats
ExpandShift ==
    [enc_n_shifts |-> 4, enc_shift |-> 8, raw_n_shifts |-> 1, raw_shift |-> 0]

HstxReset ==
    [expand_tmds  |-> [l2_nbits |-> 0, l2_rot |-> 0, l1_nbits |-> 0, l1_rot |-> 0,
                       l0_nbits |-> 0, l0_rot |-> 0],
     expand_shift |-> [enc_n_shifts |-> 0, enc_shift |-> 0, raw_n_shifts |-> 0,
                       raw_shift |-> 0]]

core1_main ==
    /\ pc = "setup"
    /\ hstx' = [expand_tmds |-> ExpandTmds(fmt), expand_shift |-> ExpandShift]
    /\ ch' = [c \in Channels |-> Preload(c)]
    /\ tag' = [c \in Channels |-> PreloadTag(c)]
    /\ intr' = {}
    /\ busy' = DMACH_PING
    /\ pc' = "wfi"
    /\ idle' = "asleep"
    /\ UNCHANGED <<fmt, dma_pong, v_scanline, vactive_cmdlist_posted, tempbuf, cmdlists>>
    /\ UNCHANGED <<teller, histVars, sinkVars, colour>>

\* ------------------------------------------------------------------------
\* The DMA engine: the transferring channel completes its transfer_count
\* words, raises its interrupt and triggers the channel it chains to.
\* Real-time assumption: the previous completion has been served.

\* What a transfer is, by the object it is read from.
KindOfSource(obj) ==
    CASE obj = "vblank_line_vsync_on"  -> "vsync_on"
      [] obj = "vblank_line_vsync_off" -> "vsync_off"
      [] obj = "vactive_line"          -> "header"
      [] OTHER                         -> "pixels"

\* The stream position after a transfer: the header is followed by the pixel
\* row of the same scanline, every other transfer ends its scanline.
SinkAfter(k, clocks, pixels) ==
    IF k = "header"
    THEN [sink EXCEPT !.sub = TRUE, !.cnt = @ + 1, !.clk = @ + clocks, !.total = @ + clocks,
                      !.pix = pixels]
    ELSE IF sink.line + 1 = MODE_V_TOTAL_LINES
    THEN [line |-> 0, sub |-> FALSE, cnt |-> 0, first |-> FALSE, clk |-> 0, total |-> 0,
          pix |-> 0]
    ELSE [sink EXCEPT !.line = @ + 1, !.sub = FALSE, !.cnt = @ + 1,
                      !.clk = 0, !.total = @ + clocks, !.pix = 0]

\* The HSTX command expander: a command word has its opcode in bits 15:12
\* and its count in bits 11:0.
Opcode(w) == Shl(Shr(w, 12) % 16, 12)

Count(w) == w % 4096

\* The counted operations of the command words ws from position i on, as
\* <<opcode, count>> pairs: RAW_REPEAT and TMDS_REPEAT take one data word
\* and output it count times, RAW takes count data words, TMDS takes count
\* pixels from the words that follow, NOP outputs nothing.
CountedFrom(ws, i) ==
    LET end == Len(ws) + 1
        from[p \in 1 .. end] ==
            IF p = end THEN <<>>
            ELSE LET op == Opcode(ws[p])
                     skip == CASE op = HSTX_CMD_RAW_REPEAT  -> 2
                               [] op = HSTX_CMD_TMDS_REPEAT -> 2
                               [] op = HSTX_CMD_RAW         -> 1 + Count(ws[p])
                               [] op = HSTX_CMD_TMDS        -> 1 + Len(ws)
                               [] OTHER                     -> 1
                 IN  (IF op = HSTX_CMD_NOP THEN <<>> ELSE << <<op, Count(ws[p])>> >>)
                        \o from[IF p + skip > end THEN end ELSE p + skip]
    IN  from[IF i > end THEN end ELSE i]

Counted(ws) == CountedFrom(ws, 1)

SumCounts(ops) ==
    LET upto[p \in 0 .. Len(ops)] == IF p = 0 THEN 0 ELSE upto[p - 1] + ops[p][2]
    IN  upto[Len(ops)]

\* the pixel clocks the command words ws ask for
Clocks(ws) == SumCounts(Counted(ws))

\* The levels of the two sync lines a raw word puts on lane 0 (its low 10
\* bits): control symbol TMDS_CTRL_vh carries vsync level v and hsync level h.
VsyncLevel(w) == IF w % 1024 \in {TMDS_CTRL_10, TMDS_CTRL_11} THEN 1 ELSE 0

HsyncLevel(w) == IF w % 1024 \in {TMDS_CTRL_01, TMDS_CTRL_11} THEN 1 ELSE 0

\* The sync levels over the pixel clocks the command words ws ask for, from
\* position i on, as segments [len, v, h]; v and h are the levels before
\* position i, which a pixel marker leaves as they are.
SyncFrom(ws, i, v, h) ==
    LET end == Len(ws) + 1
        At(p) == IF p > end THEN end ELSE p
        from[p \in 1 .. end, pv \in {-1, 0, 1}, ph \in {-1, 0, 1}] ==
            IF p = end THEN <<>>
            ELSE LET op == Opcode(ws[p])
                     k  == Count(ws[p])
                 IN  CASE op \in {HSTX_CMD_RAW_REPEAT, HSTX_CMD_TMDS_REPEAT} ->
                            <<[len |-> k, v |-> VsyncLevel(ws[p + 1]),
                                          h |-> HsyncLevel(ws[p + 1])]>>
                               \o from[At(p + 2), VsyncLevel(ws[p + 1]), HsyncLevel(ws[p + 1])]
                       [] op = HSTX_CMD_RAW ->
                            [j \in 1 .. k |-> [len |-> 1, v |-> VsyncLevel(ws[p + j]),
                                                          h |-> HsyncLevel(ws[p + j])]]
                               \o from[At(p + 1 + k), VsyncLevel(ws[p + k]), HsyncLevel(ws[p + k])]
                       [] op = HSTX_CMD_TMDS ->
                            <<[len |-> k, v |-> pv, h |-> ph]>>
                       [] OTHER -> from[At(p + 1), pv, ph]
    IN  from[At(i), v, h]

SyncOf(ws) == SyncFrom(ws, 1, -1, -1)

\* the pixels a pixel marker among the counted operations ops asks for, to
\* be taken from the words that follow
PixelsAsked(ops) ==
    LET upto[p \in 0 .. Len(ops)] ==
            IF p = 0 THEN 0
            ELSE upto[p - 1] + (IF ops[p][1] = HSTX_CMD_TMDS THEN ops[p][2] ELSE 0)
    IN  upto[Len(ops)]

\* The pixels the encoder takes from one 32-bit word: expand_shift makes it
\* shift ENC_N_SHIFTS times by ENC_SHIFT bits before the next word is
\* popped (a field value of 0 stands for 32).
PixelsPerWord(es) == IF es.enc_n_shifts = 0 THEN 32 ELSE es.enc_n_shifts

\* the command words a transfer reads (a pixel row carries no command)
WordsAt(addr, count) ==
    IF addr.obj \in DOMAIN cmdlists
    THEN SubSeq(cmdlists[addr.obj], addr.off \div WordBytes + 1, addr.off \div WordBytes + count)
    ELSE <<>>

\* The channel a completing channel c triggers: the one it chains to; none
\* when CHAIN_TO holds its own number.
Triggered(c, to) == IF to = c THEN -1 ELSE to

\* The part of a completion the interrupt controller sees: the running
\* channel raises its flag in INTS0 (irq_quiet = false, channel enabled in
\* irq0).  No other step raises a flag.
ChannelCompletes ==
    /\ pc = "wfi"
    /\ busy \in Channels
    /\ intr = {}
    /\ intr' = intr \cup {busy}

DmaComplete ==
    /\ ChannelCompletes
    /\ ch' = [ch EXCEPT ![busy].read_addr =
                 Addr(@.obj, @.off + WordBytes * ch[busy].transfer_count)]
    /\ busy' = Triggered(busy, ch[busy].chain_to)
    /\ LET k == KindOfSource(ch[busy].read_addr.obj)
           ws == WordsAt(ch[busy].read_addr, ch[busy].transfer_count)
       IN  /\ sunk' = <<[ch    |-> busy,
                         addr  |-> ch[busy].read_addr,
                         count |-> ch[busy].transfer_count,
                         kind  |-> k,
                         tag   |-> tag[busy].line,  \* index it was programmed for
                         by    |-> tag[busy].by,    \* who programmed it
                         line  |-> sink.line,       \* index the stream has reached
                         sub   |-> sink.sub,        \* header of that index delivered
                         nth   |-> sink.cnt + 1,    \* transfer number within the period
                         first |-> sink.first,      \* in the first vertical period
                         ops   |-> Counted(ws),     \* counted operations it carries
                         sync  |-> SyncOf(ws),      \* sync levels it carries
                         clk   |-> sink.clk + Clocks(ws),     \* pixel clocks of the line
                         total |-> sink.total + Clocks(ws), \* pixel clocks of the period
                         asked |-> sink.pix,        \* pixels the header before asked for
                         ppw   |-> PixelsPerWord(hstx.expand_shift)]>>
           /\ sink' = SinkAfter(k, Clocks(ws), PixelsAsked(Counted(ws)))
    /\ UNCHANGED <<fmt, pc, dma_pong, v_scanline, vactive_cmdlist_posted, tempbuf, cmdlists, hstx>>
    /\ UNCHANGED <<loopVars, histVars, tag, colour>>

\* What one pass of a loop outside the handler does to the feeder state
\* <<v_scanline, vactive_cmdlist_posted, dma_pong>>: nothing.
LoopOnSharedResets(s) == <<0, FALSE, FALSE>>

LoopOnShared(s) == s

\* while (1) __wfi();  on core 1: __wfi() returned after an interrupt was
\* served, the loop calls it again.  A pending interrupt is served first.
core1_idle ==
    /\ pc = "wfi"
    /\ intr = {}
    /\ idle = "awake"
    /\ idle' = "asleep"
    /\ LET s == LoopOnShared(sharedVars) IN
         /\ v_scanline' = s[1]
         /\ vactive_cmdlist_posted' = s[2]
         /\ dma_pong' = s[3]
    /\ UNCHANGED <<fmt, pc, ch, tempbuf, busy, intr, cmdlists, hstx, teller>>
    /\ UNCHANGED <<histVars, tag, sinkVars, colour>>

\* while (1) { sleep_ms(1000); printf(..., teller++); }  on core 0
main ==
    /\ teller < MaxTeller
    /\ teller' = teller + 1
    /\ LET s == LoopOnShared(sharedVars) IN
         /\ v_scanline' = s[1]
         /\ vactive_cmdlist_posted' = s[2]
         /\ dma_pong' = s[3]
    /\ UNCHANGED <<fmt, pc, ch, tempbuf, busy, intr, cmdlists, hstx, idle>>
    /\ UNCHANGED <<histVars, tag, sinkVars, colour>>

\* ------------------------------------------------------------------------

Init ==
    /\ fmt \in Formats
    /\ pc = "setup"
    /\ dma_pong = FALSE
    /\ v_scanline = InitialScanline
    /\ vactive_cmdlist_posted = FALSE
    /\ ch = [c \in Channels |-> NoChannel]
    /\ tempbuf = -1
    /\ busy = -1
    /\ intr = {}
    /\ cmdlists = [vblank_line_vsync_off |-> vblank_line_vsync_off,
                   vblank_line_vsync_on  |-> vblank_line_vsync_on,
                   vactive_line          |-> vactive_line]
    /\ hstx = HstxReset
    /\ idle = "awake"
    /\ teller = 0
    /\ colour = <<>>
    /\ n = 0
    /\ recent = <<>>
    /\ emitted = NothingEmitted
    /\ sinceWrap = FALSE
    /\ firstLen = 0
    /\ sinceZero = 0
    /\ tag = [c \in Channels |-> [line |-> -1, by |-> "none"]]
    /\ sink = [line |-> 0, sub |-> FALSE, cnt |-> 0, first |-> TRUE, clk |-> 0, total |-> 0,
               pix |-> 0]
    /\ sunk = <<>>

Next ==
    \/ core1_main
    \/ DmaComplete
    \/ dma_irq_handler
    \/ core1_idle
    \/ main

Spec == Init /\ [][Next]_vars

\* The feeder keeps running: the setup is carried out, a started channel
\* completes its transfer (the sink keeps pulling words at the pixel clock)
\* and a pending completion interrupt is taken.
\* The two idle loops leave the feeder's state alone, so progress of the
\* feeder is checked over its own steps.
FeederNext ==
    \/ core1_main
    \/ DmaComplete
    \/ dma_irq_handler

FairSpec ==
    /\ Init /\ [][FeederNext]_vars
    /\ WF_vars(core1_main)
    /\ WF_intr(ChannelCompletes)
    /\ WF_vars(dma_irq_handler)

\* ------------------------------------------------------------------------
\* Colour packing (pure functions of three uint8_t)

\* (r & 0xc0) >> 6, (g & 0xe0) >> 3, (b & 0xe0) >> 0
PartR332(r) == Shr(BitAnd(r, 192), 6)
PartG332WideMask(g) == Shr(BitAnd(g, 240), 3)
PartG332(g) == Shr(BitAnd(g, 224), 3)
PartB332(b) == Shr(BitAnd(b, 224), 0)

\* the int result is returned as uint8_t
colour_rgb332(r, g, b) == BitOr(BitOr(PartR332(r), PartG332(g)), PartB332(b)) % 256

\* ((uint16_t)r & 0xf8) >> 3, ((uint16_t)g & 0xfc) << 3, ((uint16_t)b & 0xf8) << 8
PartR565(r) == Shr(BitAnd(r, 248), 3)
PartG565(g) == Shl(BitAnd(g, 252), 3)
PartB565(b) == Shl(BitAnd(b, 248), 8)

\* the int result is returned as uint16_t
colour_rgb565(r, g, b) == BitOr(BitOr(PartR565(r), PartG565(g)), PartB565(b)) % 65536

\* uint8_t arguments the functions are called with: every single bit, the
\* masks of the code, alternating patterns and the extremes
ColourSamples ==
    {0, 1, 2, 3, 4, 7, 8, 16, 31, 32, 63, 64, 85, 127, 128, 170, 192, 224, 248, 252, 255}

\* A behaviour of ColourSpec follows one call: the functions are pure, a
\* later call sees nothing of an earlier one.
CallColourRgb332 ==
    /\ colour = <<>>
    /\ \E r, g, b \in ColourSamples :
          colour' = [fn |-> "colour_rgb332", r |-> r, g |-> g, b |-> b,
                     out |-> colour_rgb332(r, g, b)]
    /\ UNCHANGED <<progVars, loopVars, histVars, tag, sinkVars>>

CallColourRgb565 ==
    /\ colour = <<>>
    /\ \E r, g, b \in ColourSamples :
          colour' = [fn |-> "colour_rgb565", r |-> r, g |-> g, b |-> b,
                     out |-> colour_rgb565(r, g, b)]
    /\ UNCHANGED <<progVars, loopVars, histVars, tag, sinkVars>>

ColourNext ==
    \/ CallColourRgb332
    \/ CallColourRgb565

ColourSpec == Init /\ [][ColourNext]_vars

\* ------------------------------------------------------------------------
\* The timing state machine alone: (v_scanline, vactive_cmdlist_posted) after
\* k invocations from the initial state, and what invocation k + 1 posts.

TimingInit == [v |-> InitialScanline, posted |-> FALSE]

TimingStep(s) ==
    LET pa == PostedAfter(Branch(s.v, s.posted), s.posted)
    IN  [v |-> ScanlineAfter(s.v, pa), posted |-> pa]

\* The timing states before invocation 1, 2, .., len, starting from s
\* (halving keeps the recursion shallow).
RECURSIVE TimingRun(_, _)
TimingRun(s, len) ==
    IF len = 1 THEN <<s>>
    ELSE LET h    == len \div 2
             left == TimingRun(s, h)
         IN  left \o TimingRun(TimingStep(left[h]), len - h)

\* Two invocations per scanline at most: 2 * 525 invocations cover a period.
TimingTrajectory == TimingRun(TimingInit, 2 * MODE_V_TOTAL_LINES)

\* The timing state after k invocations from the initial state.
TimingAfter(k) == TimingTrajectory[k + 1]

\* The payload posted from timing state s: the branch, the source address,
\* the word count and, for a pixel row, its byte offset in the asset.
PostedFrom(f, s) ==
    LET br == Branch(s.v, s.posted)
    IN  <<br, ReadAddr(f, br, s.v), TransferCount(f, br),
          IF br # "pixels" THEN -1
          ELSE IF f = "RGB332" THEN TempbufAfter(f, br, s.v, -1)
          ELSE ReadAddr(f, br, s.v).off>>

\* ------------------------------------------------------------------------
\* Properties.  recent holds the latest invocations in order; a property
\* stated of the latest record(s) in every reachable state holds of every
\* invocation the history follows.

R == Len(recent)
Last == recent[R]
Prev == recent[R - 1]
Prev2 == recent[R - 2]

Recording == n < MaxInvocations

FirstActiveLine == MODE_V_TOTAL_LINES - MODE_V_ACTIVE_LINES

IsBlankKind(k) == k \in {"vsync_on", "vsync_off"}

\* C1: over one full vertical period (from one wrap of v_scanline to 0 to
\* the next) every scanline index 0..524 is visited exactly once, and for
\* each index the handler emits exactly one of: the vsync list, the blanking
\* list, or the active-line header followed by one pixel row.
C1_PeriodVisitsEveryLineOnce ==
    (R > 0 /\ IsWrap(Last) /\ sinceWrap) =>
        /\ DOMAIN emitted = 1 .. 525
        /\ \A i \in 0 .. 524 : emitted[i + 1] \in {"V", "B", "HP"}

C1_Witness ==
    /\ R > 0 /\ IsWrap(Last) /\ sinceWrap
    /\ \E i \in 0 .. 524 : emitted[i + 1] = "V"
    /\ \E i \in 0 .. 524 : emitted[i + 1] = "B"
    /\ emitted[524 + 1] = "HP"

\* C2: the vsync list is selected exactly at index 10 and 11, the blanking
\* list without vsync exactly at 0..9 and 12..44, the active header / pixel
\* payloads exactly at 45..524; walking upward the payload changes from
\* vsync to no-vsync exactly at index 12 and to the header exactly at 45.
C2_SelectionByIndex ==
    R > 0 =>
      /\ (Last.kind = "vsync_on") <=> (Last.line \in {10, 11})
      /\ (Last.kind = "vsync_off") <=> (Last.line \in (0 .. 9) \cup (12 .. 44))
      /\ (Last.kind \in {"header", "pixels"}) <=> (Last.line \in 45 .. 524)
      /\ Last.kind = "vsync_on" => Last.addr = Addr("vblank_line_vsync_on", 0)
      /\ Last.kind = "vsync_off" => Last.addr = Addr("vblank_line_vsync_off", 0)
      /\ Last.kind = "header" => Last.addr = Addr("vactive_line", 0)
      /\ Last.kind = "pixels" => Last.addr.obj \in {"tempbuf", "framebuf"}
      /\ R > 1 =>
           /\ (Prev.kind = "vsync_on" /\ Last.kind = "vsync_off") <=>
                 (Prev.line = 11 /\ Last.line = 12)
           /\ (IsBlankKind(Prev.kind) /\ Last.kind = "header") <=>
                 (Prev.line = 44 /\ Last.line = 45)

\* Index 11 -> 12 and 44 -> 45 have been walked, in a period that began at 0.
C2_Witness ==
    /\ R > 1 /\ sinceWrap
    /\ Prev.line = 44 /\ Prev.kind = "vsync_off"
    /\ Last.line = 45 /\ Last.kind = "header"
    /\ emitted[11 + 1] = "V" /\ emitted[12 + 1] = "B" /\ emitted[0 + 1] = "B"

\* C3: an active scanline takes exactly two consecutive invocations before
\* v_scanline changes: the first posts the header and sets
\* vactive_cmdlist_posted, the second posts the pixel row and clears it; a
\* pixel row is only posted right after the header of the same index.
C3_TwoInvocationsPerActiveLine ==
    R > 0 =>
      /\ Last.line \in FirstActiveLine .. (MODE_V_TOTAL_LINES - 1) =>
            Last.kind \in {"header", "pixels"}
      /\ Last.kind = "header" =>
            /\ Last.addr = Addr("vactive_line", 0)
            /\ Last.posted = TRUE
            /\ Last.next = Last.line
            /\ R > 1 => Prev.next = Last.line /\ Prev.line # Last.line
      /\ Last.kind = "pixels" =>
            /\ R > 1
            /\ Prev.kind = "header"
            /\ Prev.line = Last.line
            /\ Last.posted = FALSE
            /\ Last.next # Last.line
      /\ (R > 1 /\ Prev.kind = "header") =>
            Last.kind = "pixels" /\ Last.line = Prev.line
      /\ Recording => (vactive_cmdlist_posted <=> Last.kind = "header")

C3_Witness ==
    /\ R > 2
    /\ Last.kind = "pixels" /\ Prev.kind = "header"
    /\ Prev2.kind = "pixels"
    /\ Last.line = 524

\* C4: an invocation that posted a blanking list or a pixel row makes
\* v_scanline (v_scanline + 1) mod 525; one that posted the header leaves it
\* unchanged; after the pixel phase of line 524 the index is 0.
C4_TransitionRule ==
    R > 0 =>
      /\ Last.kind \in {"vsync_on", "vsync_off", "pixels"} =>
            Last.next = (Last.line + 1) % 525
      /\ Last.kind = "header" => Last.next = Last.line
      /\ (Last.kind = "pixels" /\ Last.line = 524) => Last.next = 0
      /\ Recording => v_scanline = Last.next

C4_Witness ==
    /\ R > 0 /\ Recording
    /\ Last.kind = "pixels" /\ Last.line = 524 /\ v_scanline = 0
    /\ emitted[10 + 1] = "V" /\ emitted[44 + 1] = "B" /\ emitted[45 + 1] = "HP"

\* C5: v_scanline is always in [0, MODE_V_TOTAL_LINES) = [0, 525).
C5_ScanlineInRange ==
    /\ v_scanline \in 0 .. (MODE_V_TOTAL_LINES - 1)
    /\ MODE_V_TOTAL_LINES = 525

C5_Witness ==
    /\ R > 0 /\ Recording
    /\ Last.line = MODE_V_TOTAL_LINES - 1 /\ Last.kind = "pixels"
    /\ v_scanline = 0

C7_ChannelAlternates ==
    R > 0 =>
      /\ Last.ch = (IF Last.pong THEN DMACH_PONG ELSE DMACH_PING)
      /\ Last.ch = (IF Last.n % 2 = 1 THEN DMACH_PING ELSE DMACH_PONG)
      /\ R > 1 => Last.n = Prev.n + 1 /\ Last.ch # Prev.ch /\ Last.pong # Prev.pong
      /\ Recording => dma_pong = ~Last.pong

C7_Witness ==
    /\ R > 2 /\ Last.n % 2 = 0 /\ Last.n > 1005
    /\ Last.ch = DMACH_PONG /\ Prev.ch = DMACH_PING /\ Prev2.ch = DMACH_PONG

\* The image row a byte offset of the asset lies in.
RowBytes(f) == IF f = "RGB332" THEN MODE_H_ACTIVE_PIXELS ELSE MODE_H_ACTIVE_PIXELS * 2

RowOf(f, off) == off \div RowBytes(f)

\* The asset offset a pixel-phase record sends.
SentOffset(e) == IF e.addr.obj = "tempbuf" THEN e.buf ELSE e.addr.off

\* C8: in the one-byte format the pixel row for index i is the 640 bytes at
\* framebuf[(i - 45) * 640], copied into tempbuf, which is the DMA source;
\* over a vertical period rows 0..479 are sent once each, in increasing
\* order.
C8_PixelRow332 ==
    (R > 0 /\ fmt = "RGB332") =>
      /\ Last.kind = "pixels" =>
            /\ Last.addr = Addr("tempbuf", 0)
            /\ Last.buf = (Last.line - 45) * 640
            /\ Last.count * WordBytes = 640
            /\ Last.count * WordBytes <= TempbufBytes
            /\ RowOf(fmt, SentOffset(Last)) = Last.line - 45
            /\ RowOf(fmt, SentOffset(Last)) \in 0 .. 479
            /\ R > 2 =>
                 IF Prev2.kind = "pixels"
                 THEN RowOf(fmt, SentOffset(Last)) = RowOf(fmt, SentOffset(Prev2)) + 1
                 ELSE RowOf(fmt, SentOffset(Last)) = 0
      /\ (R > 1 /\ Prev.kind = "pixels" /\ Last.kind # "header") =>
            RowOf(fmt, SentOffset(Prev)) = 479

C8_Witness ==
    /\ R > 1 /\ fmt = "RGB332"
    /\ Prev.kind = "pixels" /\ RowOf(fmt, SentOffset(Prev)) = 479
    /\ Last.kind = "vsync_off" /\ Last.line = 0
    /\ R > 2 /\ Prev2.kind = "header" /\ Prev2.line = 524

\* C9 (as claimed): in the two-byte format the first 240 active scanlines
\* send asset rows 0..239 in order and the next 240 send rows 0..239 again.
C9_Claim_Duplicated565 ==
    (R > 0 /\ fmt = "RGB565" /\ Last.kind = "pixels") =>
      LET a == Last.line - FirstActiveLine
      IN  /\ Last.addr.obj = "framebuf"
          /\ Last.addr.off % RowBytes(fmt) = 0
          /\ RowOf(fmt, SentOffset(Last)) = (IF a < 240 THEN a ELSE a - 240)

\* What an invocation emitted: which command list or which pixel row.
Payload(e) == <<e.kind, e.addr, e.count, IF e.kind = "pixels" THEN SentOffset(e) ELSE -1>>

\* C10: run for 2 x 525 scanlines from the initial state, the machine emits
\* the same sequence of payloads twice: invocation k of the second period
\* posts what invocation k of the first period posted, which is what the
\* timing state machine posts k - 1 steps from its initial state.
C10_SecondPeriodRepeatsFirst ==
    R > 0 =>
      /\ (firstLen = 0 \/ Last.n <= firstLen) =>
            Payload(Last) = PostedFrom(fmt, TimingAfter(Last.n - 1))
      /\ (firstLen > 0 /\ Last.n > firstLen /\ Last.n <= 2 * firstLen) =>
            /\ Payload(Last) = PostedFrom(fmt, TimingAfter(Last.n - firstLen - 1))
            /\ Last.lines <= 2 * 525
      /\ (Last.lines = 2 * 525 /\ Last.next # Last.line) => Last.n = 2 * firstLen

C10_Witness ==
    /\ R > 0 /\ Last.lines = 2 * 525 /\ Last.next # Last.line
    /\ firstLen > 0 /\ Last.n = 2 * firstLen
    /\ Last.kind = "vsync_off" /\ Prev.kind = "vsync_off" /\ Prev2.kind = "pixels"

\* ------------------------------------------------------------------------
\* The stream delivered to the sink.

Sunk == sunk[1]

InvocationsPerPeriod == MODE_V_TOTAL_LINES + MODE_V_ACTIVE_LINES

\* C11: both channels are pre-loaded with the blanking list without vsync,
\* standing for scanlines 0 and 1, and the first invocation programs the
\* payload of index 2; so the stream delivered in the first vertical period
\* (pre-queued, then handler-programmed transfers) carries every index
\* 0..524 once, with the payload kind the index has in every later period.
C11_StartupAlignment ==
    /\ (R > 0 /\ Last.n = 1) => Last.line = 2
    /\ Len(sunk) > 0 =>
         \* each transfer is the one programmed for the index the stream is at
         /\ Sunk.tag = Sunk.line
         \* and is of the kind that index has in every period
         /\ Sunk.kind = Branch(Sunk.line, Sunk.sub)
         /\ Sunk.kind = "vsync_on" <=> Sunk.line \in {10, 11}
         /\ Sunk.kind = "vsync_off" <=> Sunk.line \in (0 .. 9) \cup (12 .. 44)
         \* the pre-queued transfers are lines 0 and 1 of the first period
         /\ Sunk.by = "core1_main" <=> (Sunk.first /\ Sunk.line \in {0, 1})
         /\ Sunk.by = "core1_main" =>
               /\ Sunk.addr = Addr("vblank_line_vsync_off", 0)
               /\ Sunk.ch = Sunk.line
         \* a period is 525 lines in 1005 transfers, the first one included
         /\ (Sunk.line = 524 /\ Sunk.kind = "pixels") => Sunk.nth = InvocationsPerPeriod

C11_Witness ==
    /\ Len(sunk) > 0 /\ Sunk.first
    /\ Sunk.line = 524 /\ Sunk.kind = "pixels" /\ Sunk.nth = 1005
    /\ Sunk.by = "dma_irq_handler"

\* ------------------------------------------------------------------------
\* Frame of the handler.

\* What no invocation touches: the channel that did not just complete, the
\* chain targets, the command tables, the rest of the program state.
HandlerLeavesAlone ==
    /\ \A c \in Channels \ intr : ch'[c] = ch[c]
    /\ \A c \in Channels : ch'[c].chain_to = ch[c].chain_to
    /\ cmdlists' = cmdlists
    /\ UNCHANGED <<fmt, pc, busy>>

\* C12 (as claimed; the interrupt acknowledge aside): an invocation writes
\* only read_addr and transfer_count of the channel that just completed and
\* v_scanline, vactive_cmdlist_posted, dma_pong; everything else is
\* unchanged, in particular the other channel, the chain targets and the
\* three command tables.
C12_Claim_WritesOnlyDescriptorsAndState ==
    [][dma_irq_handler => (HandlerLeavesAlone /\ tempbuf' = tempbuf)]_vars

\* C12 (amended): as claimed, but the invocation acknowledges the interrupt
\* and, in the pixel phase of the one-byte format, overwrites tempbuf.
C12_FrameOfHandler ==
    [][dma_irq_handler =>
        /\ HandlerLeavesAlone
        /\ intr' \subseteq intr
        /\ tempbuf' # tempbuf =>
              /\ fmt = "RGB332"
              /\ Branch(v_scanline, vactive_cmdlist_posted) = "pixels"]_vars

C12_Witness ==
    /\ R > 0 /\ Recording /\ fmt = "RGB332"
    /\ Last.kind = "pixels" /\ Last.line = 46
    /\ tempbuf = Last.buf /\ tempbuf # 0
    /\ ch[Last.ch].read_addr = Addr("tempbuf", 0)
    /\ ch[Last.busy].read_addr = Addr("vactive_line", 0)
    /\ cmdlists.vactive_line = vactive_line

\* ------------------------------------------------------------------------
\* Single writer.

\* dma_channel_start has been called
FeederStarted == busy \in Channels

\* what software programs into a channel (the hardware advances the offset
\* of read_addr while it transfers)
Programmed(c) == <<c.read_addr.obj, c.transfer_count, c.chain_to>>

Field(x, lo, width) == Shr(x, lo) % Pow2(width)

\* C14: the output of colour_rgb332 decodes to the top 2 bits of r, the top
\* 3 bits of g and the top 3 bits of b, the output of colour_rgb565 to the
\* top 5, 6 and 5 bits; the three fields are disjoint and the result fits
\* in 8 resp. 16 bits.
C14_ColourRoundTrip ==
    colour # <<>> =>
        /\ colour.fn = "colour_rgb332" =>
              /\ colour.out \in 0 .. 255
              /\ Field(colour.out, 0, 2) = Shr(colour.r, 6)
              /\ Field(colour.out, 2, 3) = Shr(colour.g, 5)
              /\ Field(colour.out, 5, 3) = Shr(colour.b, 5)
              /\ BitAnd(PartR332(colour.r), PartG332(colour.g)) = 0
              /\ BitAnd(PartR332(colour.r), PartB332(colour.b)) = 0
              /\ BitAnd(PartG332(colour.g), PartB332(colour.b)) = 0
              /\ colour.out = PartR332(colour.r) + PartG332(colour.g) + PartB332(colour.b)
        /\ colour.fn = "colour_rgb565" =>
              /\ colour.out \in 0 .. 65535
              /\ Field(colour.out, 0, 5) = Shr(colour.r, 3)
              /\ Field(colour.out, 5, 6) = Shr(colour.g, 2)
              /\ Field(colour.out, 11, 5) = Shr(colour.b, 3)
              /\ BitAnd(PartR565(colour.r), PartG565(colour.g)) = 0
              /\ BitAnd(PartR565(colour.r), PartB565(colour.b)) = 0
              /\ BitAnd(PartG565(colour.g), PartB565(colour.b)) = 0
              /\ colour.out = PartR565(colour.r) + PartG565(colour.g) + PartB565(colour.b)

\* a call of each function, every field with dropped low bits
C14_Witness ==
    /\ colour # <<>> /\ colour.fn = "colour_rgb332"
    /\ colour.r = 127 /\ colour.g = 255 /\ colour.b = 170
    /\ colour.out = 1 + 28 + 160

\* ------------------------------------------------------------------------
\* Line timing of the delivered stream.

BlankingCounts ==
    << <<HSTX_CMD_RAW_REPEAT, MODE_H_FRONT_PORCH>>,
       <<HSTX_CMD_RAW_REPEAT, MODE_H_SYNC_WIDTH>>,
       <<HSTX_CMD_RAW_REPEAT, MODE_H_BACK_PORCH + MODE_H_ACTIVE_PIXELS>> >>

HeaderCounts ==
    << <<HSTX_CMD_RAW_REPEAT, MODE_H_FRONT_PORCH>>,
       <<HSTX_CMD_RAW_REPEAT, MODE_H_SYNC_WIDTH>>,
       <<HSTX_CMD_RAW_REPEAT, MODE_H_BACK_PORCH>>,
       <<HSTX_CMD_TMDS, MODE_H_ACTIVE_PIXELS>> >>

MODE_H_SYNC_POLARITY == 0
MODE_V_SYNC_POLARITY == 0

\* the pixel clocks [from, to) in which hsync is asserted, segments starting at t
RECURSIVE HsyncSpans(_, _)
HsyncSpans(segs, t) ==
    IF segs = <<>> THEN {}
    ELSE (IF Head(segs).h = MODE_H_SYNC_POLARITY THEN {<<t, t + Head(segs).len>>} ELSE {})
            \cup HsyncSpans(Tail(segs), t + Head(segs).len)

\* the horizontal structure of a list: lengths and hsync levels
HStructure(segs) == [i \in DOMAIN segs |-> <<segs[i].len, segs[i].h>>]

VsyncThroughout(segs) == \A i \in DOMAIN segs : segs[i].v = MODE_V_SYNC_POLARITY

VsyncNowhere(segs) == \A i \in DOMAIN segs : segs[i].v # MODE_V_SYNC_POLARITY

\* C16: in every delivered line hsync is inactive for the first 16 pixel
\* clocks, asserted for exactly the next 96 and inactive for the rest; vsync
\* is constant within a line, asserted throughout lines 10 and 11 of a
\* period and deasserted on the other 523; the two blanking lists have the
\* same horizontal structure.
C16_SyncLevels ==
    /\ HStructure(SyncOf(cmdlists.vblank_line_vsync_off))
          = HStructure(SyncOf(cmdlists.vblank_line_vsync_on))
    /\ (Len(sunk) > 0 /\ Sunk.kind # "pixels") =>
         /\ HsyncSpans(Sunk.sync, 0)
               = {<<MODE_H_FRONT_PORCH, MODE_H_FRONT_PORCH + MODE_H_SYNC_WIDTH>>}
         /\ \A i \in DOMAIN Sunk.sync : Sunk.sync[i].h \in {0, 1} /\ Sunk.sync[i].v \in {0, 1}
         /\ Sunk.sync[1].h # MODE_H_SYNC_POLARITY
         /\ Sunk.sync[Len(Sunk.sync)].h # MODE_H_SYNC_POLARITY
         /\ Sunk.clk = MODE_H_TOTAL_PIXELS
         /\ VsyncThroughout(Sunk.sync) \/ VsyncNowhere(Sunk.sync)
         /\ VsyncThroughout(Sunk.sync) <=> Sunk.line \in {10, 11}
         /\ Sunk.line \in 0 .. MODE_V_TOTAL_LINES - 1

\* the second vsync line has been delivered, with its hsync pulse
C16_Witness ==
    /\ Len(sunk) > 0 /\ Sunk.line = 11 /\ Sunk.kind = "vsync_on"
    /\ VsyncThroughout(Sunk.sync)
    /\ HsyncSpans(Sunk.sync, 0) = {<<16, 112>>}
    /\ sink.line = 12

\* ------------------------------------------------------------------------
\* Encoder configuration against the packing functions.

\* the positions of the bits set in x
RECURSIVE BitsFrom(_, _)
BitsFrom(x, i) ==
    IF x = 0 THEN {}
    ELSE (IF x % 2 = 1 THEN {i} ELSE {}) \cup BitsFrom(x \div 2, i + 1)

BitsOf(x) == BitsFrom(x, 0)

\* the bit fields the reference packing function of format f writes
PackedFields(f) ==
    IF f = "RGB332"
    THEN {BitsOf(PartR332(255)), BitsOf(PartG332(255)), BitsOf(PartB332(255))}
    ELSE {BitsOf(PartR565(255)), BitsOf(PartG565(255)), BitsOf(PartB565(255))}

\* The two ways to read an NBITS field: as the bit count (0) or as the bit
\* count minus one (1).
NbitsReadings == {0, 1}

\* The bits of a pixel a lane encodes: the pixel is rotated right by rot and
\* the lane takes nbits + k bits from bit 7 downwards.
LaneField(rot, nbits, k) == {(p + rot) % 32 : p \in (8 - (nbits + k)) .. 7}

SelectedFields(cfg, k) ==
    {LaneField(cfg.l2_rot, cfg.l2_nbits, k),
     LaneField(cfg.l1_rot, cfg.l1_nbits, k),
     LaneField(cfg.l0_rot, cfg.l0_nbits, k)}

\* the encoder has been configured
Configured == pc = "wfi"

\* C18 (as claimed): under one reading of the bit-count fields, the same for
\* both configurations, the encoder configuration in force selects exactly
\* the bit fields the packing function of the pixel format writes (2/3/3
\* bits for colour_rgb332, 5/6/5 bits for colour_rgb565).
C18_Claim_ExpandSelectsPackedFields ==
    Configured =>
        \E k \in NbitsReadings :
            /\ SelectedFields(ExpandTmds("RGB332"), k) = PackedFields("RGB332")
            /\ SelectedFields(hstx.expand_tmds, k) = PackedFields(fmt)

\* ------------------------------------------------------------------------
\* Bounds of the programmed transfers.

\* rows of the image asset: mario_640x480_rgb332, mario_640x240_rgb565
AssetRows(f) == IF f = "RGB332" THEN 480 ELSE 240

AssetBytes(f) == AssetRows(f) * RowBytes(f)

\* sizeof the object a transfer reads
ObjectBytes(f, obj) ==
    CASE obj \in DOMAIN cmdlists -> WordBytes * Len(cmdlists[obj])
      [] obj = "tempbuf"         -> TempbufBytes
      [] obj = "framebuf"        -> AssetBytes(f)
      [] OTHER                   -> 0

InBounds(f, obj, off, bytes) == off >= 0 /\ off + bytes <= ObjectBytes(f, obj)

\* C19 (as claimed): the source address and word count an invocation writes
\* describe a range inside the source object (command list, tempbuf or the
\* asset), the row copied into tempbuf is read from inside the asset, and
\* the asset row index is in [0, 480) resp. [0, 240).
C19_Claim_TransfersInBounds ==
    (R > 0 /\ Recording) =>
        /\ InBounds(fmt, Last.addr.obj, Last.addr.off, WordBytes * Last.count)
        /\ (Last.kind = "pixels" /\ fmt = "RGB332") =>
              InBounds(fmt, "framebuf", Last.buf, TempbufBytes)
        /\ Last.kind = "pixels" =>
              RowOf(fmt, SentOffset(Last)) \in 0 .. AssetRows(fmt) - 1

\* ------------------------------------------------------------------------
\* The scratch buffer.

\* channel c has tempbuf as its source
SourcesTempbuf(c) == ch[c].read_addr.obj = "tempbuf"

\* the invocation about to run overwrites tempbuf
PixelPhase332 == fmt = "RGB332" /\ Branch(v_scanline, vactive_cmdlist_posted) = "pixels"

\* C20: in the one-byte format, whenever dma_irq_handler overwrites tempbuf
\* the channel transferring meanwhile is sourcing the active-line header,
\* no transferring channel has tempbuf as its source, and the transfer of
\* the previous row from tempbuf has completed (all its 640 bytes read).
C20_TempbufNotOverwrittenInFlight ==
    [][(dma_irq_handler /\ PixelPhase332) =>
          /\ tempbuf' = FramebufIndex332(v_scanline)
          /\ busy \in Channels /\ busy \notin intr
          /\ ch[busy].read_addr = Addr("vactive_line", 0)
          /\ ~SourcesTempbuf(busy)
          /\ \A c \in Channels : SourcesTempbuf(c) =>
                /\ c \in intr
                /\ ch[c].read_addr = Addr("tempbuf", TempbufBytes)
          /\ v_scanline > FirstActiveLine => \E c \in intr : SourcesTempbuf(c)]_vars

\* a row has been copied while the header of its line is in flight and the
\* channel that carried the previous row now holds the new one
C20_Witness ==
    /\ fmt = "RGB332" /\ R > 1 /\ Recording
    /\ Last.kind = "pixels" /\ Last.line = 47 /\ Prev.kind = "header"
    /\ tempbuf = FramebufIndex332(47)
    /\ busy = Last.busy /\ ch[busy].read_addr = Addr("vactive_line", 0)
    /\ ch[Last.ch].read_addr = Addr("tempbuf", 0)
    /\ intr = {}

\* ------------------------------------------------------------------------
\* The sub-phase flag.

ActiveRange == FirstActiveLine .. MODE_V_TOTAL_LINES - 1

\* C21: between invocations, vactive_cmdlist_posted implies that v_scanline
\* is in the active range 45..524; the flag is false while v_scanline is in
\* 0..44, so the blanking region (after the wrap) and the first active line
\* are entered with the header phase pending.
C21_PostedOnlyInActiveRange ==
    /\ vactive_cmdlist_posted => v_scanline \in ActiveRange
    /\ v_scanline \in 0 .. FirstActiveLine - 1 => ~vactive_cmdlist_posted
    /\ (R > 0 /\ Recording /\ Last.next = 0) => ~Last.posted
    /\ (R > 0 /\ Recording /\ Last.line = FirstActiveLine - 1) =>
          /\ Last.next = FirstActiveLine /\ ~Last.posted
          /\ Branch(Last.next, Last.posted) = "header"

\* the flag is set on the last active line
C21_Witness ==
    /\ vactive_cmdlist_posted /\ v_scanline = 524
    /\ R > 0 /\ Last.kind = "header" /\ Last.line = 524

\* ------------------------------------------------------------------------
\* Header against pixel row.

\* C22 (as claimed): in both pixel formats the pixels the encoder takes from
\* a pixel-row transfer, its word count (160 resp. 320) times the pixels per
\* word configured in expand_shift (4 chunks of 8 bits), are the 640 pixels
\* the marker of the header before it asked for: no word is left over and
\* the encoder does not wait for pixel data.
C22_Claim_PixelRowMatchesHeader ==
    (Len(sunk) > 0 /\ Sunk.kind = "pixels") =>
        /\ Sunk.count = (IF fmt = "RGB332" THEN 160 ELSE 320)
        /\ hstx.expand_shift.enc_n_shifts = 4 /\ hstx.expand_shift.enc_shift = 8
        /\ Sunk.asked = MODE_H_ACTIVE_PIXELS
        /\ Sunk.count * Sunk.ppw = Sunk.asked

\* ------------------------------------------------------------------------
\* Period in invocations.

\* position of invocation number k within its vertical period, and the
\* number of periods before it (counted from the initial state)
PositionOf(k) == (k - 1) % InvocationsPerPeriod

FrameOf(k) == (k - 1) \div InvocationsPerPeriod

\* C23: a vertical period takes 45 + 2 * 480 = 1005 invocations; the pair
\* (v_scanline, vactive_cmdlist_posted) recurs with period 1005 and no
\* shorter one, dma_pong with it only with period 2010: the channel that
\* carries a given payload alternates from one period to the next.
C23_Period1005Parity2010 ==
    /\ InvocationsPerPeriod = 45 + 2 * 480 /\ InvocationsPerPeriod = 1005
    /\ \A k \in 1 .. InvocationsPerPeriod - 1 : TimingAfter(k) # TimingInit
    /\ TimingAfter(InvocationsPerPeriod) = TimingInit
    /\ Recording =>
         /\ v_scanline = TimingAfter(n % InvocationsPerPeriod).v
         /\ vactive_cmdlist_posted = TimingAfter(n % InvocationsPerPeriod).posted
         /\ dma_pong = (n % 2 = 1)
         /\ dma_pong = ((n % (2 * InvocationsPerPeriod)) % 2 = 1)
    /\ (Recording /\ R > 0) =>
         /\ Payload(Last) = PostedFrom(fmt, TimingAfter(PositionOf(Last.n)))
         /\ Last.ch = (IF (PositionOf(Last.n) + FrameOf(Last.n)) % 2 = 0
                       THEN DMACH_PING ELSE DMACH_PONG)
         /\ IsWrap(Last) => Last.n % InvocationsPerPeriod = InvocationsPerPeriod - InitialScanline

\* the third period has begun: its first payload is on the channel of the
\* first period again, the second period had it on the other one
C23_Witness ==
    /\ Recording /\ R > 0 /\ Last.n = 2011 /\ Last.line = 2
    /\ Last.ch = DMACH_PING /\ ~Last.pong
    /\ FrameOf(Last.n) = 2 /\ PositionOf(Last.n) = 0

\* ------------------------------------------------------------------------
\* Progress (under FairSpec).

\* the latest invocation left v_scanline as it was
Stayed(e) == e.next = e.line

\* C24: with completions continuing, v_scanline is never left unchanged by
\* two consecutive invocations, every index 0..524 is reached again and
\* again, the handler is invoked again and again, after the start a
\* completion or an invocation is always enabled, and v_scanline returns to
\* 0 after at most 1005 invocations.
C24_Progress ==
    /\ []((Recording /\ R > 1) => ~(Stayed(Last) /\ Stayed(Prev)))
    /\ [](sinceZero <= InvocationsPerPeriod)
    /\ [](FeederStarted => ENABLED (ChannelCompletes \/ dma_irq_handler))
    /\ \A i \in 0 .. MODE_V_TOTAL_LINES - 1 : []<>(v_scanline = i)
    /\ []<><<dma_irq_handler>>_vars

\* the index is back at 0 for the second time, 1005 invocations after the first
C24_Witness ==
    /\ Recording /\ R > 1 /\ IsWrap(Last) /\ Last.n = 2008
    /\ v_scanline = 0 /\ sinceZero = 0
    /\ Prev.kind = "header" /\ Stayed(Prev) /\ ~Stayed(Last)

====
